---- MODULE Spec2Model ----
(***************************************************************************)
(* A model of page_visualizer.py: the attribute mini-grammar, the          *)
(* coordinate parser, the reading-order resolver, the per-document         *)
(* processor, the single-document driver and the batch aggregator.         *)
(*                                                                         *)
(* Strings are sequences of one-character strings, so that the regular     *)
(* expression search, str.lower() and the pass-through of raw ids are      *)
(* computed and not assumed.  An absent XML attribute that the code reads  *)
(* with a falsy test (region.get('id'), .get('regionRef'), .get('custom',  *)
(* '')) is the empty string: the code cannot tell the two apart.           *)
(***************************************************************************)
EXTENDS Integers, Sequences, FiniteSets, TLC

VARIABLES
    mode,           \* which entry point this behaviour exercises
    pc,             \* position of the entry point
    doc,            \* the parsed annotation file (regions, reading order)
    seq_ret,        \* the value extract_region_sequence returned
    env,            \* the files on disk and what the file system allows
    args,           \* the arguments of the call or the parsed command line
    file_ret,       \* the value process_file returned
    overlay,        \* what create_overlay drew, in drawing order
    log,            \* messages logged at level ERROR, in order
    exit_status,    \* exit status of the process ("running" until it ends)
    written,        \* the report files on disk after the run
    inputs,         \* batch: per document, what its files hold
    task,           \* batch: per document, the state of its future
    outcome,        \* batch: per document, what future.result() gives
    success_count,  \* batch: process_all_files' success_count
    stats_data,     \* batch: stats_data["data"] (absent = key not set)
    sequence_data,  \* batch: sequence_data
    presorted,      \* batch: the sort found sequence_data already in order
    text,           \* the attribute value a parsing function is applied to
    fn_ret          \* the value the parsing function returned

vars == << mode, pc, doc, seq_ret, env, args, file_ret, overlay, log,
           exit_status, written, inputs, task, outcome,
           success_count, stats_data, sequence_data, presorted, text,
           fn_ret >>

(***************************************************************************)
(* Bounds of the model.                                                    *)
(***************************************************************************)
MaxRegions == 2     \* regions per enumerated document
MaxRefs == 2        \* RegionRefIndexed elements per enumerated document
NFiles == 3         \* xml files of a batch
MaxWorkers == 2     \* worker processes of the pool
MaxSpaces == 1      \* white space characters on each side of the colon
MaxTokens == 3      \* tokens of an enumerated points attribute

(***************************************************************************)
(* Strings.                                                                *)
(***************************************************************************)
s_empty == << >>
s_type == <<"t","y","p","e">>
s_unknown == <<"u","n","k","n","o","w","n">>
s_header == <<"h","e","a","d","e","r">>
s_paragraph == <<"p","a","r","a","g","r","a","p","h">>
s_page_number == <<"p","a","g","e","-","n","u","m","b","e","r">>
s_catch_word == <<"c","a","t","c","h","-","w","o","r","d">>
s_r1 == <<"r","1">>
s_r2 == <<"r","2">>
s_r3 == <<"r","3">>
s_r9 == <<"r","9">>

UpperCase == {"A","B","C","D","E","F","G","H","I","J","K","L","M",
              "N","O","P","Q","R","S","T","U","V","W","X","Y","Z"}
LowerCase == {"a","b","c","d","e","f","g","h","i","j","k","l","m",
              "n","o","p","q","r","s","t","u","v","w","x","y","z"}
Digits == {"0","1","2","3","4","5","6","7","8","9"}

\* regular-expression class \w
IsWord(c) == c \in UpperCase \cup LowerCase \cup Digits \cup {"_"}
\* regular-expression class \s
IsSpace(c) == c \in {" ", "\t", "\n", "\r"}

LowerChar(c) ==
    CASE c = "A" -> "a" [] c = "B" -> "b" [] c = "C" -> "c" [] c = "D" -> "d"
      [] c = "E" -> "e" [] c = "F" -> "f" [] c = "G" -> "g" [] c = "H" -> "h"
      [] c = "I" -> "i" [] c = "J" -> "j" [] c = "K" -> "k" [] c = "L" -> "l"
      [] c = "M" -> "m" [] c = "N" -> "n" [] c = "O" -> "o" [] c = "P" -> "p"
      [] c = "Q" -> "q" [] c = "R" -> "r" [] c = "S" -> "s" [] c = "T" -> "t"
      [] c = "U" -> "u" [] c = "V" -> "v" [] c = "W" -> "w" [] c = "X" -> "x"
      [] c = "Y" -> "y" [] c = "Z" -> "z" [] OTHER -> c

\* str.lower()
lower(s) == [i \in 1..Len(s) |-> LowerChar(s[i])]

\* RegionProcessor.extract_region_type searches the pattern
\*     "type", white space, ":", white space, group 1
\* where group 1 is a word followed by any number of "-word".  The classes
\* \s, ":" and \w are disjoint, so the greedy match from a start position is
\* the only match from it, and re.search returns the match of the leftmost
\* start position that has one.
RECURSIVE SkipSpaces(_, _)
\* white space from position j: the first position that holds no white space
SkipSpaces(s, j) ==
    IF j <= Len(s) /\ IsSpace(s[j]) THEN SkipSpaces(s, j + 1) ELSE j

RECURSIVE SkipWord(_, _)
\* word characters from position j: the first position that holds no word character
SkipWord(s, j) ==
    IF j <= Len(s) /\ IsWord(s[j]) THEN SkipWord(s, j + 1) ELSE j

RECURSIVE SkipHyphenated(_, _)
\* any number of "-word" from position j: the position after the last one
SkipHyphenated(s, j) ==
    IF j + 1 <= Len(s) /\ s[j] = "-" /\ IsWord(s[j + 1])
    THEN SkipHyphenated(s, SkipWord(s, j + 1))
    ELSE j

\* the literal "type" at position i
LiteralAt_any_case(s, i) ==
    /\ i + 3 <= Len(s)
    /\ lower(SubSeq(s, i, i + 3)) = s_type

LiteralAt(s, i) ==
    /\ i + 3 <= Len(s)
    /\ SubSeq(s, i, i + 3) = s_type

\* position of ':' for a match that starts at i (0 when there is none)
ColonAt(s, i) ==
    IF ~LiteralAt(s, i) THEN 0
    ELSE LET j == SkipSpaces(s, i + 4)
         IN IF j <= Len(s) /\ s[j] = ":" THEN j ELSE 0

\* first position of group 1 for a match that starts at i (0: no match)
GroupStart(s, i) ==
    IF ColonAt(s, i) = 0 THEN 0
    ELSE LET k == SkipSpaces(s, ColonAt(s, i) + 1)
         IN IF k <= Len(s) /\ IsWord(s[k]) THEN k ELSE 0

MatchStarts(s) == {i \in 1..Len(s) : GroupStart(s, i) # 0}

Min(S) == CHOOSE x \in S : \A y \in S : x <= y

\* [found |-> a match exists, value |-> group 1 in lower case]
extract_region_type(custom_attr) ==
    IF custom_attr = s_empty \/ MatchStarts(custom_attr) = {}
    THEN [found |-> FALSE, value |-> s_empty]
    ELSE LET k == GroupStart(custom_attr, Min(MatchStarts(custom_attr)))
             e == SkipHyphenated(custom_attr, SkipWord(custom_attr, k))
         IN [found |-> TRUE, value |-> lower(SubSeq(custom_attr, k, e - 1))]

\* RegionProcessor.get_region_type
get_region_type(region) ==
    LET m == extract_region_type(region.custom)
    IN IF m.found THEN m.value
       ELSE IF region.has_type THEN lower(region.type) ELSE s_unknown

(***************************************************************************)
(* RegionProcessor.parse_coords.  The points attribute is given as the     *)
(* list str.split() produces, each token as the list point.split(',')      *)
(* produces, each field as what float() makes of it: a number (kept in     *)
(* thousandths, so that truncation by int() is computed), "inf", "nan",    *)
(* or "bad" for text float() rejects.                                      *)
(***************************************************************************)
Num(milli) == [kind |-> "num", milli |-> milli]
BadField == [kind |-> "bad", milli |-> 0]
InfField == [kind |-> "inf", milli |-> 0]
NanField == [kind |-> "nan", milli |-> 0]

\* int(float(field)) of a number: truncation toward zero
IntOfFloat(milli) ==
    IF milli >= 0 THEN milli \div 1000 ELSE -((-milli) \div 1000)

\* float() raises ValueError on text, int() raises ValueError on nan
RaisesValueError(f) == f.kind \in {"bad", "nan"}
\* int() raises OverflowError on an infinity: the except clause misses it
RaisesOverflowError(f) == f.kind = "inf"

\* one iteration of the loop: "point", "skip" (ValueError caught, warning)
\* or "raise" (OverflowError leaves parse_coords)
TokenOutcome(tok) ==
    IF Len(tok) # 2 THEN "skip"
    ELSE IF RaisesValueError(tok[1]) THEN "skip"
    ELSE IF RaisesOverflowError(tok[1]) THEN "raise"
    ELSE IF RaisesValueError(tok[2]) THEN "skip"
    ELSE IF RaisesOverflowError(tok[2]) THEN "raise"
    ELSE "point"

TokenPoint(tok) == << IntOfFloat(tok[1].milli), IntOfFloat(tok[2].milli) >>

RECURSIVE ParseFrom(_, _, _)
ParseFrom(tokens, i, points) ==
    IF i > Len(tokens) THEN [raised |-> FALSE, points |-> points]
    ELSE CASE TokenOutcome(tokens[i]) = "raise" ->
                  [raised |-> TRUE, points |-> << >>]
           [] TokenOutcome(tokens[i]) = "skip" ->
                  ParseFrom(tokens, i + 1, points)
           [] OTHER ->
                  ParseFrom(tokens, i + 1, Append(points, TokenPoint(tokens[i])))

\* [raised |-> an exception left the function, points |-> the list returned]
parse_coords(points_str) == ParseFrom(points_str, 1, << >>)

(***************************************************************************)
(* Documents.  regions: the TextRegion elements in document order, as      *)
(* root.findall('.//pc:TextRegion') lists them.  has_reading_order: a      *)
(* ReadingOrder element exists; has_ordered_group: it holds an             *)
(* OrderedGroup; refs: the regionRef attributes of the RegionRefIndexed    *)
(* descendants of the first OrderedGroup, in document order.               *)
(***************************************************************************)
Region(id, custom, has_type, type, has_coords, points) ==
    [id |-> id, custom |-> custom, has_type |-> has_type, type |-> type,
     has_coords |-> has_coords, points |-> points]

Document(regions, has_ro, has_group, refs) ==
    [regions |-> regions, has_reading_order |-> has_ro,
     has_ordered_group |-> has_group, refs |-> refs]

\* "type:<t>;" as a custom attribute
TypeCustom(t) == s_type \o <<":">> \o t \o <<";">>

s_Paragraph == <<"P","a","r","a","g","r","a","p","h">>

SeqOf(S, n) == UNION {[1..k -> S] : k \in 0..n}

PositionsWithId(regions, id) == {j \in 1..Len(regions) : regions[j].id = id}
Max(S) == CHOOSE x \in S : \A y \in S : x >= y

\* the dictionary id_to_type after the first loop: a region without id
\* writes nothing, a later region with the same id overwrites
id_to_type(regions) ==
    [id \in {regions[j].id : j \in 1..Len(regions)} \ {s_empty} |->
        get_region_type(regions[Max(PositionsWithId(regions, id))])]

\* id_to_type.get(region_id, region_id)
Lookup_default_unknown(map, region_id) ==
    IF region_id \in DOMAIN map THEN map[region_id] ELSE s_unknown

Lookup(map, region_id) ==
    IF region_id \in DOMAIN map THEN map[region_id] ELSE region_id

RECURSIVE ProjectFrom(_, _, _, _)
\* the loop "if region_id: sequence.append(id_to_type.get(...))" over ids
ProjectFrom(map, ids, i, sequence) ==
    IF i > Len(ids) THEN sequence
    ELSE ProjectFrom(map, ids, i + 1,
                     IF ids[i] # s_empty
                     THEN Append(sequence, Lookup(map, ids[i]))
                     ELSE sequence)

RECURSIVE ProjectKnownFrom(_, _, _, _)
ProjectKnownFrom(map, ids, i, sequence) ==
    IF i > Len(ids) THEN sequence
    ELSE ProjectKnownFrom(map, ids, i + 1,
                          IF ids[i] \in DOMAIN map
                          THEN Append(sequence, map[ids[i]])
                          ELSE sequence)

ExplicitSequence_known_only(d) ==
    IF d.has_reading_order /\ d.has_ordered_group
    THEN ProjectKnownFrom(id_to_type(d.regions), d.refs, 1, << >>)
    ELSE << >>

\* sequence after the ReadingOrder / OrderedGroup block
ExplicitSequence(d) ==
    IF d.has_reading_order /\ d.has_ordered_group
    THEN ProjectFrom(id_to_type(d.regions), d.refs, 1, << >>)
    ELSE << >>

RegionIds(regions) == [j \in 1..Len(regions) |-> regions[j].id]

FallbackSequence_every_region(d) ==
    [j \in 1..Len(d.regions) |-> get_region_type(d.regions[j])]

\* the fallback loop over the TextRegion elements
FallbackSequence(d) ==
    ProjectFrom(id_to_type(d.regions), RegionIds(d.regions), 1, << >>)

extract_region_sequence_total_of_sequence(d) ==
    LET sequence == IF ExplicitSequence(d) # << >> THEN ExplicitSequence(d)
                    ELSE FallbackSequence(d)
    IN [region_sequence |-> sequence,
        total_regions |-> Len(sequence),
        last_region |-> IF sequence # << >> THEN sequence[Len(sequence)]
                        ELSE s_empty]

\* PageVisualizer.extract_region_sequence
extract_region_sequence(d) ==
    LET sequence == IF ExplicitSequence(d) # << >> THEN ExplicitSequence(d)
                    ELSE FallbackSequence(d)
    IN [region_sequence |-> sequence,
        total_regions |-> Len(d.regions),
        last_region |-> IF sequence # << >> THEN sequence[Len(sequence)]
                        ELSE s_empty]

(***************************************************************************)
(* Values of the variables an entry point does not use.                    *)
(***************************************************************************)
\* the exit status while the process runs
NotExited == -1

NoSequence == [region_sequence |-> << >>, total_regions |-> 0,
               last_region |-> s_empty]
EmptyDocument == Document(<< >>, FALSE, FALSE, << >>)

(***************************************************************************)
(* The documents extract_region_sequence is applied to: every document of  *)
(* at most MaxRegions regions and MaxRefs references over the ids and      *)
(* attributes below, and the three documents of the specification's        *)
(* examples.                                                               *)
(***************************************************************************)
SeqIds == {s_empty, s_r1, s_r2}
SeqRefs == {s_empty, s_r1, s_r2, s_r9}

\* a region whose custom attribute names the type
CustomRegion(id, t) == Region(id, TypeCustom(t), FALSE, s_empty, FALSE, << >>)
\* a region with no custom attribute and a type attribute
TypedRegion(id, t) == Region(id, s_empty, TRUE, t, FALSE, << >>)
\* a region with neither
BareRegion(id) == Region(id, s_empty, FALSE, s_empty, FALSE, << >>)

SeqRegions ==
    {CustomRegion(id, s_header) : id \in SeqIds}
        \cup {TypedRegion(id, s_Paragraph) : id \in SeqIds}
        \cup {BareRegion(id) : id \in SeqIds}

ReadingOrders ==
    {[has_reading_order |-> FALSE, has_ordered_group |-> FALSE, refs |-> << >>],
     [has_reading_order |-> TRUE, has_ordered_group |-> FALSE, refs |-> << >>]}
        \cup {[has_reading_order |-> TRUE, has_ordered_group |-> TRUE, refs |-> r] :
                 r \in SeqOf(SeqRefs, MaxRefs)}

ExampleRegions ==
    << CustomRegion(s_r1, s_header), CustomRegion(s_r2, s_paragraph),
       CustomRegion(s_r3, s_page_number) >>
\* references [r2, r1, r3] over r1 = header, r2 = paragraph, r3 = page-number
ExampleExplicit == Document(ExampleRegions, TRUE, TRUE, << s_r2, s_r1, s_r3 >>)
\* no ordered group, regions [header, paragraph, catch-word] in file order
ExampleFileOrder ==
    Document(<< CustomRegion(s_r1, s_header), CustomRegion(s_r2, s_paragraph),
                CustomRegion(s_r3, s_catch_word) >>, FALSE, FALSE, << >>)
\* the same with the id of the second region removed
ExampleNoId ==
    Document(<< CustomRegion(s_r1, s_header), CustomRegion(s_empty, s_paragraph),
                CustomRegion(s_r3, s_catch_word) >>, FALSE, FALSE, << >>)

SeqDocuments ==
    {Document(r, o.has_reading_order, o.has_ordered_group, o.refs) :
        r \in SeqOf(SeqRegions, MaxRegions), o \in ReadingOrders}
        \cup {ExampleExplicit, ExampleFileOrder, ExampleNoId}

(***************************************************************************)
(* SpecSeq: extract_region_sequence applied to one document.               *)
(***************************************************************************)
IdleFile ==
    /\ env = << >>
    /\ args = << >>
    /\ file_ret = << >>
    /\ overlay = << >>
    /\ log = << >>
    /\ exit_status = NotExited
    /\ written = << >>

IdleText ==
    /\ text = << >>
    /\ fn_ret = << >>

IdleBatch ==
    /\ inputs = << >>
    /\ task = << >>
    /\ outcome = << >>
    /\ success_count = 0
    /\ stats_data = [present |-> FALSE, data |-> << >>]
    /\ sequence_data = << >>
    /\ presorted = TRUE

file_vars == << env, args, file_ret, overlay, log, exit_status, written >>
batch_vars == << inputs, task, outcome, success_count, stats_data,
                 sequence_data, presorted >>

InitSeq ==
    /\ mode = "sequence"
    /\ pc = "start"
    /\ doc \in SeqDocuments
    /\ seq_ret = NoSequence
    /\ IdleFile
    /\ IdleBatch
    /\ IdleText

ExtractRegionSequence ==
    /\ mode = "sequence"
    /\ pc = "start"
    /\ seq_ret' = extract_region_sequence(doc)
    /\ pc' = "done"
    /\ UNCHANGED << text, fn_ret, mode, doc, file_vars, batch_vars >>

NextSeq == ExtractRegionSequence

SpecSeq == InitSeq /\ [][NextSeq]_vars

(***************************************************************************)
(* The overlay.  A region the renderer draws is recorded with its type,    *)
(* its palette colour and its polygon; the label and the pixels are not    *)
(* modelled.                                                               *)
(***************************************************************************)
\* Config.REGION_COLORS.get(region_type, Config.DEFAULT_COLOR)
base_color(region_type) ==
    CASE region_type = s_header -> "red"
      [] region_type = s_paragraph -> "blue"
      [] region_type = s_catch_word -> "green"
      [] region_type = s_page_number -> "yellow"
      [] region_type = <<"m","a","r","g","i","n","a","l","i","a">> -> "purple"
      [] region_type = <<"s","i","g","n","a","t","u","r","e","-","m","a","r","k">>
            -> "orange"
      [] OTHER -> "pink"

\* the least number of points _process_region draws
MinPolygonPoints == 3

process_region_two_points(region) ==
    IF ~region.has_coords THEN [raised |-> FALSE, drawn |-> << >>]
    ELSE LET parsed == parse_coords(region.points)
         IN IF parsed.raised THEN [raised |-> TRUE, drawn |-> << >>]
            ELSE IF Len(parsed.points) >= 2
            THEN [raised |-> FALSE,
                  drawn |-> << [type |-> get_region_type(region),
                                color |-> base_color(get_region_type(region)),
                                points |-> parsed.points] >>]
            ELSE [raised |-> FALSE, drawn |-> << >>]

\* RegionProcessor._process_region: what it adds to the overlay (nothing
\* when the region has no Coords element, no valid point or fewer than
\* three points), or the exception parse_coords lets through
process_region(region) ==
    IF ~region.has_coords THEN [raised |-> FALSE, drawn |-> << >>]
    ELSE LET parsed == parse_coords(region.points)
         IN IF parsed.raised THEN [raised |-> TRUE, drawn |-> << >>]
            ELSE IF parsed.points = << >> THEN [raised |-> FALSE, drawn |-> << >>]
            ELSE IF Len(parsed.points) >= MinPolygonPoints
            THEN [raised |-> FALSE,
                  drawn |-> << [type |-> get_region_type(region),
                                color |-> base_color(get_region_type(region)),
                                points |-> parsed.points] >>]
            ELSE [raised |-> FALSE, drawn |-> << >>]

RECURSIVE OverlayFrom(_, _, _)
OverlayFrom(regions, i, drawn) ==
    IF i > Len(regions) THEN [raised |-> FALSE, drawn |-> drawn]
    ELSE IF process_region(regions[i]).raised
    THEN [raised |-> TRUE, drawn |-> << >>]
    ELSE OverlayFrom(regions, i + 1, drawn \o process_region(regions[i]).drawn)

\* RegionProcessor.create_overlay
create_overlay(regions) == OverlayFrom(regions, 1, << >>)

(***************************************************************************)
(* Statistics.                                                             *)
(***************************************************************************)
RegionTypes(regions) == {get_region_type(regions[j]) : j \in 1..Len(regions)}
CountOfType(regions, t) ==
    Cardinality({j \in 1..Len(regions) : get_region_type(regions[j]) = t})

\* PageVisualizer._collect_statistics
collect_statistics(regions, base_name) ==
    [filename |-> base_name,
     total_regions |-> Len(regions),
     region_counts |-> [t \in RegionTypes(regions) |-> CountOfType(regions, t)]]

NoStatistics ==
    [filename |-> s_empty, total_regions |-> 0, region_counts |-> << >>]

(***************************************************************************)
(* PageVisualizer.process_file.  e.image and e.xml say what the two files  *)
(* are: "missing", present but unreadable ("corrupt", "malformed": the     *)
(* open or the parse raises), or "ok"; e.save_ok says whether saving the   *)
(* overlay image succeeds.  The result holds the returned triple (None as  *)
(* has_stats / has_sequence FALSE), the overlay written to disk and the    *)
(* messages logged at level ERROR.                                         *)
(***************************************************************************)
NoOverlay == [saved |-> FALSE, drawn |-> << >>]
FailedReturn ==
    [success |-> FALSE, has_stats |-> FALSE, stats |-> NoStatistics,
     has_sequence |-> FALSE, sequence |-> NoSequence]

\* PageVisualizer._verify_files
verify_files(e) == e.image # "missing" /\ e.xml # "missing"

\* an exception leaves the try block of process_file
TryRaises(e, d, create) ==
    \/ e.image = "corrupt"
    \/ e.xml = "malformed"
    \/ create /\ create_overlay(d.regions).raised
    \/ create /\ ~e.save_ok

process_file_sequence_with_stats(base_name, e, d, collect_stats, create) ==
    IF ~verify_files(e)
    THEN [ret |-> FailedReturn, overlay |-> NoOverlay, errors |-> << >>]
    ELSE IF TryRaises(e, d, create)
    THEN [ret |-> FailedReturn, overlay |-> NoOverlay,
          errors |-> << "Error processing" >>]
    ELSE [ret |-> [success |-> TRUE,
                   has_stats |-> collect_stats,
                   stats |-> IF collect_stats
                             THEN collect_statistics(d.regions, base_name)
                             ELSE NoStatistics,
                   has_sequence |-> collect_stats,
                   sequence |-> IF collect_stats
                                THEN extract_region_sequence(d)
                                ELSE NoSequence],
          overlay |-> IF create
                      THEN [saved |-> TRUE, drawn |-> create_overlay(d.regions).drawn]
                      ELSE NoOverlay,
          errors |-> << >>]

process_file(base_name, e, d, collect_stats, create) ==
    IF ~verify_files(e)
    THEN [ret |-> FailedReturn, overlay |-> NoOverlay, errors |-> << >>]
    ELSE IF TryRaises(e, d, create)
    THEN [ret |-> FailedReturn, overlay |-> NoOverlay,
          errors |-> << "Error processing" >>]
    ELSE [ret |-> [success |-> TRUE,
                   has_stats |-> collect_stats,
                   stats |-> IF collect_stats
                             THEN collect_statistics(d.regions, base_name)
                             ELSE NoStatistics,
                   has_sequence |-> TRUE,
                   sequence |-> extract_region_sequence(d)],
          overlay |-> IF create
                      THEN [saved |-> TRUE, drawn |-> create_overlay(d.regions).drawn]
                      ELSE NoOverlay,
          errors |-> << >>]

(***************************************************************************)
(* Order of strings, as Python compares str: by code point, a proper       *)
(* prefix first.  AsciiOrder lists the characters of the model by code.    *)
(***************************************************************************)
AsciiOrder ==
    << "-", "0","1","2","3","4","5","6","7","8","9",
       "A","B","C","D","E","F","G","H","I","J","K","L","M",
       "N","O","P","Q","R","S","T","U","V","W","X","Y","Z", "_",
       "a","b","c","d","e","f","g","h","i","j","k","l","m",
       "n","o","p","q","r","s","t","u","v","w","x","y","z" >>
Code(c) == CHOOSE k \in 1..Len(AsciiOrder) : AsciiOrder[k] = c

RECURSIVE StrLess(_, _)
StrLess(a, b) ==
    IF b = << >> THEN FALSE
    ELSE IF a = << >> THEN TRUE
    ELSE IF Code(Head(a)) < Code(Head(b)) THEN TRUE
    ELSE IF Code(Head(a)) > Code(Head(b)) THEN FALSE
    ELSE StrLess(Tail(a), Tail(b))

RECURSIVE sorted(_)
\* sorted(set of strings)
sorted(S) ==
    IF S = {} THEN << >>
    ELSE LET least == CHOOSE x \in S : \A y \in S \ {x} : StrLess(x, y)
         IN << least >> \o sorted(S \ {least})

RECURSIVE InsertByFilename(_, _)
\* x placed behind every row whose filename is not greater (a stable sort)
InsertByFilename(rows, x) ==
    IF rows = << >> THEN << x >>
    ELSE IF StrLess(x.filename, Head(rows).filename)
    THEN << x >> \o rows
    ELSE << Head(rows) >> \o InsertByFilename(Tail(rows), x)

RECURSIVE SortFrom(_, _, _)
SortFrom(rows, i, acc) ==
    IF i > Len(rows) THEN acc
    ELSE SortFrom(rows, i + 1, InsertByFilename(acc, rows[i]))

sort_by_filename_skipped(rows) == rows

\* list.sort(key=lambda x: x["filename"])
sort_by_filename(rows) == SortFrom(rows, 1, << >>)

(***************************************************************************)
(* The report files.  A file is the list of its count columns (the sorted  *)
(* region types; the sequence report has none) and its rows; the fixed     *)
(* header columns, the tabs and str() of the numbers are not modelled.     *)
(* can_write says whether opening and writing the file succeeds; when it   *)
(* does not, the exception is caught and logged and no file appears.       *)
(***************************************************************************)
AbsentFile == [present |-> FALSE, types |-> << >>, rows |-> << >>]

StatTypes(stats_rows) ==
    sorted(UNION {DOMAIN stats_rows[k].region_counts : k \in 1..Len(stats_rows)})

\* the content generate_stats_file writes
StatsFile(stats_rows) ==
    [present |-> TRUE,
     types |-> StatTypes(stats_rows),
     rows |-> [k \in 1..Len(stats_rows) |->
         [filename |-> stats_rows[k].filename,
          total_regions |-> stats_rows[k].total_regions,
          counts |-> [c \in 1..Len(StatTypes(stats_rows)) |->
              IF StatTypes(stats_rows)[c] \in DOMAIN stats_rows[k].region_counts
              THEN stats_rows[k].region_counts[StatTypes(stats_rows)[c]]
              ELSE 0]]]]

\* generate_stats_file
generate_stats_file(stats_rows, can_write) ==
    IF ~can_write
    THEN [file |-> AbsentFile, errors |-> << "Error writing statistics" >>]
    ELSE [file |-> StatsFile(stats_rows), errors |-> << >>]

\* generate_sequence_file
generate_sequence_file(sequence_rows, can_write) ==
    IF ~can_write
    THEN [file |-> AbsentFile,
          errors |-> << "Error writing region sequence data" >>]
    ELSE [file |-> [present |-> TRUE, types |-> << >>, rows |-> sequence_rows],
          errors |-> << >>]

\* the row process_single_file and process_all_files build from a sequence
SequenceRow(base_name, sequence) ==
    [filename |-> base_name,
     total_regions |-> sequence.total_regions,
     last_region |-> sequence.last_region,
     region_sequence |-> sequence.region_sequence]

(***************************************************************************)
(* process_single_file, as main runs it: the exit status is 1 through      *)
(* sys.exit(1) and 0 when the function returns.                            *)
(***************************************************************************)
WritesOf(base_name, e, ret, stats) ==
    [counts |-> IF ret.success /\ stats /\ ret.has_stats
                THEN generate_stats_file(<< ret.stats >>, e.counts_writable)
                ELSE [file |-> AbsentFile, errors |-> << >>],
     sequences |-> IF ret.success /\ stats /\ ret.has_sequence
                   THEN generate_sequence_file(
                            << SequenceRow(base_name, ret.sequence) >>,
                            e.sequences_writable)
                   ELSE [file |-> AbsentFile, errors |-> << >>]]

\* what process_single_file does once process_file has returned r
AfterProcessFile_write_error_fatal(base_name, e, r, stats) ==
    LET w == WritesOf(base_name, e, r.ret, stats)
    IN [ret |-> r.ret,
        overlay |-> r.overlay,
        written |-> [counts |-> w.counts.file, sequences |-> w.sequences.file],
        log |-> r.errors \o w.counts.errors \o w.sequences.errors
                    \o (IF r.ret.success THEN << >> ELSE << "Processing failed" >>),
        exit_status |-> IF r.ret.success
                           /\ w.counts.errors \o w.sequences.errors = << >>
                        THEN 0 ELSE 1]

AfterProcessFile(base_name, e, r, stats) ==
    LET w == WritesOf(base_name, e, r.ret, stats)
    IN [ret |-> r.ret,
        overlay |-> r.overlay,
        written |-> [counts |-> w.counts.file, sequences |-> w.sequences.file],
        log |-> r.errors \o w.counts.errors \o w.sequences.errors
                    \o (IF r.ret.success THEN << >> ELSE << "Processing failed" >>),
        exit_status |-> IF r.ret.success THEN 0 ELSE 1]

\* process_single_file: [ret, overlay, written, log, exit_status]
process_single_file(base_name, e, d, stats) ==
    CHOOSE out \in {AfterProcessFile(base_name, e, r, stats) :
                       r \in {process_file(base_name, e, d, TRUE, TRUE)}} : TRUE

(***************************************************************************)
(* SpecFile: one document on disk; process_file is called with any         *)
(* arguments, or process_single_file runs with or without --stats.         *)
(***************************************************************************)
Point(x, y) == << Num(x * 1000), Num(y * 1000) >>
Triangle == << Point(10, 10), Point(20, 20), Point(30, 10) >>
\* two points only
Segment == << Point(10, 10), Point(20, 20) >>
\* "10.9,10 20,20 x,y 30,-3.5": a malformed token between three good ones
TriangleWithBadToken ==
    << << Num(10900), Num(10000) >>, Point(20, 20),
       << BadField, BadField >>, << Num(30000), Num(-3500) >> >>
\* "10,10 20,20,5 nan,1": one point left
OnePointLeft ==
    << Point(10, 10), << Num(20000), Num(20000), Num(5000) >>,
       << NanField, Num(1000) >> >>
\* "10,10 inf,20 30,30"
WithInfinity == << Point(10, 10), << InfField, Num(20000) >>, Point(30, 30) >>

FileRegions ==
    { Region(s_r1, TypeCustom(s_header), FALSE, s_empty, TRUE, Triangle),
      Region(s_r2, TypeCustom(s_header), FALSE, s_empty, TRUE, Segment),
      Region(s_empty, s_empty, TRUE, s_Paragraph, TRUE, TriangleWithBadToken),
      Region(s_r3, TypeCustom(s_paragraph), FALSE, s_empty, FALSE, << >>),
      Region(s_r1, s_empty, FALSE, s_empty, TRUE, << >>),
      Region(s_r2, TypeCustom(s_page_number), FALSE, s_empty, TRUE, OnePointLeft),
      Region(s_r3, TypeCustom(s_header), FALSE, s_empty, TRUE, WithInfinity) }

FileDocuments ==
    {Document(r, FALSE, FALSE, << >>) : r \in SeqOf(FileRegions, MaxRegions)}

Environments ==
    [image : {"missing", "corrupt", "ok"},
     xml : {"missing", "malformed", "ok"},
     save_ok : BOOLEAN,
     counts_writable : BOOLEAN,
     sequences_writable : BOOLEAN]

\* the base name given on the command line
s_doc == <<"d","o","c">>

InitFile ==
    /\ mode = "file"
    /\ pc = "start"
    /\ doc \in FileDocuments
    /\ env \in Environments
    /\ args = [collect_stats |-> FALSE, create_overlay |-> FALSE, stats |-> FALSE]
    /\ file_ret = FailedReturn
    /\ overlay = NoOverlay
    /\ log = << >>
    /\ exit_status = NotExited
    /\ written = [counts |-> AbsentFile, sequences |-> AbsentFile]
    /\ seq_ret = NoSequence
    /\ IdleBatch
    /\ IdleText

\* a call of process_file
CallProcessFile(collect_stats, create) ==
    /\ mode = "file"
    /\ pc = "start"
    /\ \E r \in {process_file(s_doc, env, doc, collect_stats, create)} :
          /\ file_ret' = r.ret
          /\ overlay' = r.overlay
          /\ log' = r.errors
    /\ args' = [collect_stats |-> collect_stats, create_overlay |-> create,
                stats |-> FALSE]
    /\ pc' = "returned"
    /\ UNCHANGED << text, fn_ret, mode, doc, env, seq_ret, exit_status, written, batch_vars >>

\* a run of the program in single-document mode
ProcessSingleFile(stats) ==
    /\ mode = "file"
    /\ pc = "start"
    /\ \E r \in {process_single_file(s_doc, env, doc, stats)} :
          /\ file_ret' = r.ret
          /\ overlay' = r.overlay
          /\ written' = r.written
          /\ log' = r.log
          /\ exit_status' = r.exit_status
    /\ args' = [collect_stats |-> TRUE, create_overlay |-> TRUE, stats |-> stats]
    /\ pc' = "exited"
    /\ UNCHANGED << text, fn_ret, mode, doc, env, seq_ret, batch_vars >>

NextFile ==
    \/ \E collect_stats, create \in BOOLEAN : CallProcessFile(collect_stats, create)
    \/ \E stats \in BOOLEAN : ProcessSingleFile(stats)

SpecFile == InitFile /\ [][NextFile]_vars

(***************************************************************************)
(* Spec: batch mode.  process_all_files submits one task per xml file to   *)
(* a pool of MaxWorkers processes; a worker runs process_file_process; the *)
(* main process takes the futures as they complete, merges each result,    *)
(* and after the pool has shut down sorts the collections and writes the   *)
(* reports.  log holds the messages of the main process.                   *)
(***************************************************************************)
\* the stems of the xml files, in the order sorted(glob('*.xml')) lists them
AllStems ==
    << <<"p","1">>, <<"p","1","0">>, <<"p","2">>, <<"p","3">>, <<"p","4">>,
       <<"p","5">> >>
StemsOf(n) == {AllStems[k] : k \in 1..n}
\* position of a stem in the submission order
Position(f) == CHOOSE k \in 1..Len(AllStems) : AllStems[k] = f

\* the annotation file of each document of the batch
BatchDocument(f) ==
    CASE Position(f) % 3 = 1 -> ExampleExplicit
      [] Position(f) % 3 = 2 -> ExampleNoId
      [] OTHER -> Document(<< Region(s_r1, s_empty, TRUE, s_Paragraph, TRUE, Triangle),
                              Region(s_r2, TypeCustom(s_header), FALSE, s_empty,
                                     TRUE, Segment) >>,
                           TRUE, TRUE, << s_r2 >>)

\* what the two files of a document are
BatchInputs ==
    { [image |-> "ok", xml |-> "ok"],
      [image |-> "missing", xml |-> "ok"] }

Files == DOMAIN inputs

\* process_file_process: the worker's call of process_file
process_file_process(base_name, a, input, save_ok) ==
    process_file(base_name,
                 [image |-> input.image, xml |-> input.xml, save_ok |-> save_ok],
                 BatchDocument(base_name), TRUE, ~a.no_overlays)

\* process_file_process for every task of the batch, evaluated once
WorkerResult ==
    [f \in StemsOf(NFiles), input \in BatchInputs,
     no_overlays \in BOOLEAN, save_ok \in BOOLEAN |->
        process_file_process(f, [no_overlays |-> no_overlays], input, save_ok)]

NoOutcome == [raised |-> FALSE, ret |-> FailedReturn]

InitBatch ==
    /\ mode = "batch"
    /\ pc = "start"
    /\ \E n \in 0..NFiles : inputs \in [StemsOf(n) -> BatchInputs]
    /\ args \in [no_overlays : BOOLEAN, no_stats : BOOLEAN]
    /\ task = [f \in DOMAIN inputs |-> "unsubmitted"]
    /\ outcome = [f \in DOMAIN inputs |-> NoOutcome]
    /\ success_count = 0
    /\ stats_data = [present |-> FALSE, data |-> << >>]
    /\ sequence_data = << >>
    /\ presorted = TRUE
    /\ log = << >>
    /\ exit_status = NotExited
    /\ written = [counts |-> AbsentFile, sequences |-> AbsentFile]
    /\ env = [counts_writable |-> TRUE, sequences_writable |-> TRUE]
    /\ doc = EmptyDocument
    /\ seq_ret = NoSequence
    /\ file_ret = FailedReturn
    /\ overlay = NoOverlay
    /\ IdleText

\* "if not xml_files: ... sys.exit(1)"
ExitNoFiles ==
    /\ mode = "batch"
    /\ pc = "start"
    /\ Files = {}
    /\ log' = Append(log, "No XML files found.")
    /\ exit_status' = 1
    /\ pc' = "done"
    /\ UNCHANGED << text, fn_ret, mode, doc, seq_ret, env, args, file_ret, overlay, written,
                    batch_vars >>

\* the dictionary comprehension that submits every file
SubmitAll ==
    /\ mode = "batch"
    /\ pc = "start"
    /\ Files # {}
    /\ task' = [f \in Files |-> "submitted"]
    /\ pc' = "collect"
    /\ UNCHANGED << text, fn_ret, mode, doc, seq_ret, env, args, file_ret, overlay, log,
                    exit_status, written, inputs, outcome, success_count,
                    stats_data, sequence_data, presorted >>

\* the tasks no worker has finished yet
Unfinished == {f \in Files : task[f] = "submitted"}
\* the workers take the queued tasks in submission order, each a new one as
\* soon as it is free: the MaxWorkers oldest unfinished tasks are running
Running ==
    {f \in Unfinished :
        Cardinality({g \in Unfinished : Position(g) < Position(f)}) < MaxWorkers}

\* process_file_process returns in its worker
TaskReturns(f, save_ok) ==
    /\ mode = "batch"
    /\ f \in Running
    /\ outcome' = [outcome EXCEPT ![f] =
          [raised |-> FALSE,
           ret |-> WorkerResult[f, inputs[f], args.no_overlays, save_ok].ret]]
    /\ task' = [task EXCEPT ![f] = "finished"]
    /\ UNCHANGED << text, fn_ret, mode, pc, doc, seq_ret, env, args, file_ret, overlay, log,
                    exit_status, written, inputs, success_count,
                    stats_data, sequence_data, presorted >>

\* the task raises outside process_file's try block (PageVisualizer(config)
\* cannot create a directory, the worker dies): future.result() will raise
TaskRaises(f) ==
    /\ mode = "batch"
    /\ f \in Running
    /\ outcome' = [outcome EXCEPT ![f] = [raised |-> TRUE, ret |-> FailedReturn]]
    /\ task' = [task EXCEPT ![f] = "finished"]
    /\ UNCHANGED << text, fn_ret, mode, pc, doc, seq_ret, env, args, file_ret, overlay, log,
                    exit_status, written, inputs, success_count,
                    stats_data, sequence_data, presorted >>

\* the result counts as a success of the loop body
Merged(out) == ~out.raised /\ out.ret.success

\* stats_data.setdefault("data", []).append(stats)
stats_after_any_result(data, out) ==
    IF ~out.raised
    THEN [present |-> TRUE, data |-> Append(data.data, out.ret.stats)]
    ELSE data

stats_after(data, out) ==
    IF Merged(out) /\ out.ret.has_stats
    THEN [present |-> TRUE, data |-> Append(data.data, out.ret.stats)]
    ELSE data

sequence_after_any_result(data, f, out) ==
    IF ~out.raised
    THEN Append(data, SequenceRow(f, out.ret.sequence))
    ELSE data

\* sequence_data.append({...})
sequence_after(data, f, out) ==
    IF Merged(out) /\ out.ret.has_sequence
    THEN Append(data, SequenceRow(f, out.ret.sequence))
    ELSE data

\* one iteration of "for future in as_completed(futures)"
Collect(f) ==
    /\ mode = "batch"
    /\ pc = "collect"
    /\ task[f] = "finished"
    /\ task' = [task EXCEPT ![f] = "collected"]
    /\ log' = IF outcome[f].raised THEN Append(log, "Error processing") ELSE log
    /\ success_count' = IF Merged(outcome[f]) THEN success_count + 1
                        ELSE success_count
    /\ stats_data' = stats_after(stats_data, outcome[f])
    /\ sequence_data' = sequence_after(sequence_data, f, outcome[f])
    /\ UNCHANGED << text, fn_ret, mode, pc, doc, seq_ret, env, args, file_ret, overlay,
                    exit_status, written, inputs, outcome, presorted >>

LoopEndsWhenNothingReady == \A f \in Files : task[f] # "finished"

\* as_completed is exhausted and the with block has shut the pool down:
\* every future has completed and been handled
AllCollected == \A f \in Files : task[f] = "collected"

\* the rest of process_all_files: both sorts, the summary, the reports
Finalize(counts_writable, sequences_writable) ==
    /\ mode = "batch"
    /\ pc = "collect"
    /\ AllCollected
    /\ \E sd \in {sort_by_filename(stats_data.data)},
          qd \in {sort_by_filename(sequence_data)} :
          /\ stats_data' = [stats_data EXCEPT !.data = sd]
          /\ sequence_data' = qd
          /\ \E sf \in {IF ~args.no_stats /\ stats_data.present
                        THEN generate_stats_file(sd, counts_writable)
                        ELSE [file |-> AbsentFile, errors |-> << >>]},
                qf \in {IF ~args.no_stats /\ qd # << >>
                        THEN generate_sequence_file(qd, sequences_writable)
                        ELSE [file |-> AbsentFile, errors |-> << >>]} :
                /\ written' = [counts |-> sf.file, sequences |-> qf.file]
                /\ log' = log \o sf.errors \o qf.errors
    /\ env' = [counts_writable |-> counts_writable,
               sequences_writable |-> sequences_writable]
    /\ presorted' = (sort_by_filename(sequence_data) = sequence_data)
    /\ exit_status' = 0
    /\ pc' = "done"
    /\ UNCHANGED << text, fn_ret, mode, doc, seq_ret, args, file_ret, overlay, inputs, task,
                    outcome, success_count >>

Next ==
    \/ ExitNoFiles
    \/ SubmitAll
    \/ \E f \in Files, save_ok \in BOOLEAN : TaskReturns(f, save_ok)
    \/ \E f \in Files : TaskRaises(f)
    \/ \E f \in Files : Collect(f)
    \/ \E counts_writable, sequences_writable \in BOOLEAN :
          Finalize(counts_writable, sequences_writable)

Init == InitBatch

Spec == Init /\ [][Next]_vars

(***************************************************************************)
(* Properties of extract_region_sequence (SpecSeq).                        *)
(***************************************************************************)
SeqDone == mode = "sequence" /\ pc = "done"

\* the references that name an id, in document order
NamedRefs(d) == SelectSeq(d.refs, LAMBDA r : r # s_empty)
\* the regions that have an id, in document order
RegionsWithId(d) == SelectSeq(d.regions, LAMBDA r : r.id # s_empty)
HasRegion(d, id) == PositionsWithId(d.regions, id) # {}
\* the type the map holds for id: that of the last region carrying it
MappedType(d, id) ==
    get_region_type(d.regions[Max(PositionsWithId(d.regions, id))])
\* the document has an explicit ordered reference list
HasExplicitList(d) ==
    d.has_reading_order /\ d.has_ordered_group /\ NamedRefs(d) # << >>
UniqueIds(d) ==
    \A i, j \in 1..Len(RegionsWithId(d)) :
        RegionsWithId(d)[i].id = RegionsWithId(d)[j].id => i = j

\* C4: with an explicit ordered reference list, the returned sequence is
\* the list of referenced ids in reference order, each id of the map
\* replaced by its type and each id absent from the map kept as the raw id
\* at the same position; last_region is the final element.  References
\* [r2, r1, r3] over r1 = header, r2 = paragraph, r3 = page-number give
\* [paragraph, header, page-number] and last_region = page-number.
C4_ExplicitProjection ==
    /\ (SeqDone /\ HasExplicitList(doc)) =>
          /\ Len(seq_ret.region_sequence) = Len(NamedRefs(doc))
          /\ \A i \in 1..Len(NamedRefs(doc)) :
                seq_ret.region_sequence[i] =
                    IF HasRegion(doc, NamedRefs(doc)[i])
                    THEN MappedType(doc, NamedRefs(doc)[i])
                    ELSE NamedRefs(doc)[i]
          /\ seq_ret.last_region =
                seq_ret.region_sequence[Len(seq_ret.region_sequence)]
    /\ (SeqDone /\ doc = ExampleExplicit) =>
          /\ seq_ret.region_sequence = << s_paragraph, s_header, s_page_number >>
          /\ seq_ret.last_region = s_page_number

\* a list that references a known id and an unknown id has been projected
C4_Witness ==
    /\ SeqDone
    /\ HasExplicitList(doc)
    /\ Len(doc.refs) = 2
    /\ HasRegion(doc, doc.refs[1])
    /\ doc.refs[2] = s_r9
    /\ seq_ret.region_sequence = << MappedType(doc, doc.refs[1]), s_r9 >>

\* C5 as stated: without an explicit list (or with one that projects to
\* nothing) the sequence is the type of each region that has a non-empty
\* id, in file order, and total_regions counts every region.
C5_FallbackOwnTypes ==
    (SeqDone /\ ~HasExplicitList(doc)) =>
        /\ seq_ret.region_sequence =
              [j \in 1..Len(RegionsWithId(doc)) |->
                  get_region_type(RegionsWithId(doc)[j])]
        /\ seq_ret.total_regions = Len(doc.regions)

\* C5 amended: without an explicit list (or with one that projects to
\* nothing) the sequence has one element per region with a non-empty id, in
\* file order: the type the id-to-type map holds for that id, which is the
\* region's own type when ids are unique and the type of the last region
\* carrying the id otherwise; regions without id are left out but counted
\* in total_regions.
C5_FallbackMappedTypes ==
    /\ (SeqDone /\ ~HasExplicitList(doc)) =>
          /\ seq_ret.region_sequence =
                [j \in 1..Len(RegionsWithId(doc)) |->
                    MappedType(doc, RegionsWithId(doc)[j].id)]
          /\ seq_ret.total_regions = Len(doc.regions)
          /\ UniqueIds(doc) =>
                seq_ret.region_sequence =
                    [j \in 1..Len(RegionsWithId(doc)) |->
                        get_region_type(RegionsWithId(doc)[j])]
    /\ (SeqDone /\ doc = ExampleFileOrder) =>
          seq_ret.region_sequence = << s_header, s_paragraph, s_catch_word >>
    /\ (SeqDone /\ doc = ExampleNoId) =>
          /\ seq_ret.region_sequence = << s_header, s_catch_word >>
          /\ seq_ret.total_regions = 3

\* three regions, the second without id: two elements, total_regions = 3
C5_Witness ==
    /\ SeqDone
    /\ doc = ExampleNoId
    /\ Len(seq_ret.region_sequence) = 2
    /\ seq_ret.total_regions = 3

\* C6 as stated: the sequence is as long as total_regions on the explicit
\* path and as long as the number of regions with an id otherwise.
C6_LengthIsTotal ==
    SeqDone =>
        IF HasExplicitList(doc)
        THEN Len(seq_ret.region_sequence) = seq_ret.total_regions
        ELSE Len(seq_ret.region_sequence) = Len(RegionsWithId(doc))

\* C6 amended: the sequence is as long as the number of references that
\* name an id on the explicit path (which may be fewer or more than
\* total_regions), and as long as the number of regions with a non-empty id
\* otherwise.
C6_LengthIsReferences ==
    SeqDone =>
        IF HasExplicitList(doc)
        THEN Len(seq_ret.region_sequence) = Len(NamedRefs(doc))
        ELSE Len(seq_ret.region_sequence) = Len(RegionsWithId(doc))

\* an explicit list shorter than the region set has been projected
C6_Witness ==
    /\ SeqDone
    /\ HasExplicitList(doc)
    /\ Len(NamedRefs(doc)) < Len(doc.regions)
    /\ Len(seq_ret.region_sequence) = Len(NamedRefs(doc))

\* C7: total_regions is the number of region elements of the document on
\* either path and whatever ids the regions have; last_region is the final
\* element of the returned sequence, or the empty string when it is empty.
C7_TotalAndLast ==
    SeqDone =>
        /\ seq_ret.total_regions = Len(doc.regions)
        /\ seq_ret.last_region =
              IF seq_ret.region_sequence = << >> THEN s_empty
              ELSE seq_ret.region_sequence[Len(seq_ret.region_sequence)]

\* a fallback sequence shorter than the region set, with a last element
C7_Witness ==
    /\ SeqDone
    /\ ~HasExplicitList(doc)
    /\ seq_ret.region_sequence # << >>
    /\ Len(seq_ret.region_sequence) < seq_ret.total_regions
    /\ seq_ret.total_regions = Len(doc.regions)
    /\ seq_ret.last_region = get_region_type(doc.regions[Len(doc.regions)])

(***************************************************************************)
(* Properties of process_file and process_single_file (SpecFile).          *)
(***************************************************************************)
FileReturned == mode = "file" /\ pc = "returned"
FileExited == mode = "file" /\ pc = "exited"
BothExist == env.image # "missing" /\ env.xml # "missing"

\* the number of points parse_coords gives for the region (0 without Coords)
PointCount(region) ==
    IF region.has_coords THEN Len(parse_coords(region.points).points) ELSE 0

\* a step of the try block raises: opening the image, parsing the XML or,
\* when an overlay is requested, rendering or saving it
StepRaises ==
    \/ env.image = "corrupt"
    \/ env.xml = "malformed"
    \/ /\ args.create_overlay
       /\ \/ ~env.save_ok
          \/ \E j \in 1..Len(doc.regions) :
                /\ doc.regions[j].has_coords
                /\ parse_coords(doc.regions[j].points).raised

WriteFailed ==
    /\ file_ret.success
    /\ args.stats
    /\ ~env.counts_writable \/ ~env.sequences_writable

\* C9 as stated: a report that cannot be written is logged without a crash,
\* and in single-document mode with --stats it makes the exit status
\* non-zero.
C9_WriteFailureFatal ==
    (FileExited /\ WriteFailed) =>
        /\ \/ "Error writing statistics" \in {log[k] : k \in 1..Len(log)}
           \/ "Error writing region sequence data" \in {log[k] : k \in 1..Len(log)}
        /\ exit_status # 0

\* C9 amended: a report that cannot be written is logged as an error and
\* the process does not crash; in single-document mode with --stats the
\* run still ends with exit status 0, the exit status being 1 only when
\* process_file failed.
C9_WriteFailureLogged ==
    FileExited =>
        /\ exit_status \in {0, 1}
        /\ exit_status = 1 <=> ~file_ret.success
        /\ (file_ret.success /\ args.stats /\ ~env.counts_writable) =>
              /\ "Error writing statistics" \in {log[k] : k \in 1..Len(log)}
              /\ ~written.counts.present
        /\ (file_ret.success /\ args.stats /\ ~env.sequences_writable) =>
              /\ "Error writing region sequence data" \in {log[k] : k \in 1..Len(log)}
              /\ ~written.sequences.present
        /\ WriteFailed => exit_status = 0

\* --stats, the counts report cannot be written, the sequence report can
C9_Witness ==
    /\ FileExited
    /\ args.stats
    /\ file_ret.success
    /\ ~env.counts_writable
    /\ env.sequences_writable
    /\ log = << "Error writing statistics" >>
    /\ written.sequences.present
    /\ exit_status = 0

RECURSIVE SumOver(_, _)
\* the sum of f over the set S of its arguments
SumOver(f, S) ==
    IF S = {} THEN 0
    ELSE LET x == CHOOSE x \in S : TRUE
         IN f[x] + SumOver(f, S \ {x})

\* the regions the renderer has to draw, in document order
RegionsToDraw(d) == SelectSeq(d.regions, LAMBDA r : PointCount(r) >= 3)

\* C10: a region with fewer than 3 points is not drawn and the regions
\* after it are still rendered, without error; it is counted in
\* total_regions and, when statistics are requested, in region_counts under
\* its type, so the counts sum to total_regions.
C10_ShortRegionCounted ==
    (FileReturned /\ file_ret.success) =>
        /\ args.create_overlay =>
              /\ overlay.saved
              /\ Len(overlay.drawn) = Len(RegionsToDraw(doc))
              /\ \A k \in 1..Len(overlay.drawn) :
                    /\ overlay.drawn[k].type = get_region_type(RegionsToDraw(doc)[k])
                    /\ overlay.drawn[k].points =
                          parse_coords(RegionsToDraw(doc)[k].points).points
        /\ file_ret.sequence.total_regions = Len(doc.regions)
        /\ args.collect_stats =>
              /\ file_ret.stats.total_regions = Len(doc.regions)
              /\ \A j \in 1..Len(doc.regions) :
                    /\ get_region_type(doc.regions[j])
                          \in DOMAIN file_ret.stats.region_counts
                    /\ file_ret.stats.region_counts[get_region_type(doc.regions[j])]
                          = Cardinality({i \in 1..Len(doc.regions) :
                                get_region_type(doc.regions[i])
                                    = get_region_type(doc.regions[j])})
              /\ SumOver(file_ret.stats.region_counts,
                         DOMAIN file_ret.stats.region_counts)
                    = file_ret.stats.total_regions

\* a region of exactly two points followed by a region that is drawn
C10_Witness ==
    /\ FileReturned
    /\ file_ret.success
    /\ args.create_overlay
    /\ args.collect_stats
    /\ Len(doc.regions) = 2
    /\ PointCount(doc.regions[1]) = 2
    /\ Len(overlay.drawn) = 1
    /\ overlay.drawn[1].type = get_region_type(doc.regions[2])
    /\ file_ret.stats.total_regions = 2
    /\ file_ret.stats.region_counts[get_region_type(doc.regions[1])] >= 1

(***************************************************************************)
(* Properties of batch mode (Spec).                                        *)
(***************************************************************************)
Batch == mode = "batch"
BatchDone == mode = "batch" /\ pc = "done" /\ Files # {}
\* every future has completed and its result has been through the loop body
EveryTaskHandled == \A f \in Files : task[f] = "collected"

\* the documents whose task returned success, in the order of their names
SuccessfulStems ==
    SelectSeq([k \in 1..Cardinality(Files) |-> AllStems[k]],
              LAMBDA f : Merged(outcome[f]))
\* the rows the reports must hold whatever the order of completion
ExpectedSequenceRows ==
    [k \in 1..Len(SuccessfulStems) |->
        SequenceRow(SuccessfulStems[k], outcome[SuccessfulStems[k]].ret.sequence)]
ExpectedStatsRows ==
    [k \in 1..Len(SuccessfulStems) |-> outcome[SuccessfulStems[k]].ret.stats]

SortedByFilename(rows) ==
    \A i, j \in 1..Len(rows) :
        i < j => StrLess(rows[i].filename, rows[j].filename)

\* C1: for every order in which the tasks complete, both collections are
\* sorted by filename before the reports are written, so the reports hold
\* the rows of the successful documents in filename order and nothing that
\* depends on the order of completion.
C1_SortedReports ==
    BatchDone =>
        /\ SortedByFilename(sequence_data)
        /\ SortedByFilename(stats_data.data)
        /\ sequence_data = ExpectedSequenceRows
        /\ stats_data.data = ExpectedStatsRows
        /\ written.sequences =
              IF ~args.no_stats /\ env.sequences_writable
                 /\ ExpectedSequenceRows # << >>
              THEN [present |-> TRUE, types |-> << >>,
                    rows |-> ExpectedSequenceRows]
              ELSE AbsentFile
        /\ written.counts =
              IF ~args.no_stats /\ env.counts_writable
                 /\ ExpectedStatsRows # << >>
              THEN StatsFile(ExpectedStatsRows)
              ELSE AbsentFile
        /\ SortedByFilename(written.sequences.rows)
        /\ SortedByFilename(written.counts.rows)

\* the tasks completed out of filename order and both reports were written
C1_Witness ==
    /\ BatchDone
    /\ ~presorted
    /\ Len(sequence_data) >= 2
    /\ written.sequences.present
    /\ written.counts.present
    /\ Len(written.counts.rows) = Len(sequence_data)

\* what a successful task of document f returns, evaluated once
ExpectedRecords ==
    [f \in StemsOf(NFiles) |->
        [sequence |-> SequenceRow(f, extract_region_sequence(BatchDocument(f))),
         stats |-> collect_statistics(BatchDocument(f).regions, f)]]

SequenceRowsOf(f) ==
    {k \in 1..Len(sequence_data) : sequence_data[k].filename = f}
StatsRowsOf(f) ==
    {k \in 1..Len(stats_data.data) : stats_data.data[k].filename = f}

\* C2: a document whose task returns success=false or raises has no row in
\* either collection; every document whose task succeeded and was handled
\* has exactly its own row in each, from then on; and the batch goes on to
\* its end with exit status 0.
C2_FailedExcluded ==
    Batch =>
        /\ \A f \in Files :
              IF task[f] = "collected" /\ Merged(outcome[f])
              THEN /\ Cardinality(SequenceRowsOf(f)) = 1
                   /\ Cardinality(StatsRowsOf(f)) = 1
                   /\ \A k \in SequenceRowsOf(f) :
                         sequence_data[k] = ExpectedRecords[f].sequence
                   /\ \A k \in StatsRowsOf(f) :
                         stats_data.data[k] = ExpectedRecords[f].stats
              ELSE SequenceRowsOf(f) = {} /\ StatsRowsOf(f) = {}
        /\ pc = "collect" =>
              \/ Running # {}
              \/ \E f \in Files : task[f] = "finished"
              \/ EveryTaskHandled
        /\ BatchDone => exit_status = 0 /\ EveryTaskHandled

\* one task raised, one returned success=false, one succeeded and has the
\* only row
C2_Witness ==
    /\ BatchDone
    /\ \E f, g, h \in Files :
          /\ outcome[f].raised
          /\ ~outcome[g].raised /\ ~outcome[g].ret.success
          /\ Merged(outcome[h])
          /\ sequence_data = << ExpectedRecords[h].sequence >>
          /\ stats_data.data = << ExpectedRecords[h].stats >>

\* C3 as stated: no task's result is in the aggregated collections while
\* another task is still running.
C3_MergeAfterJoin ==
    (Batch /\ (sequence_data # << >> \/ stats_data.present)) => Running = {}

\* C3 amended: the results are merged as the tasks complete: a task's
\* result is added once that task has completed, possibly while other tasks
\* are still running; only the sorting of the collections and the writing
\* of the reports wait until all parallel tasks have completed.
C3_ReportsAfterJoin ==
    Batch =>
        /\ \A k \in 1..Len(sequence_data) :
              task[sequence_data[k].filename] = "collected"
        /\ \A k \in 1..Len(stats_data.data) :
              task[stats_data.data[k].filename] = "collected"
        /\ (pc = "done" \/ written.counts.present \/ written.sequences.present) =>
              EveryTaskHandled

\* a result has been merged while another task is running
C3_Witness ==
    /\ Batch
    /\ pc = "collect"
    /\ sequence_data # << >>
    /\ stats_data.present
    /\ Running # {}

\* the documents whose task returned success=true and has been handled
SucceededFiles ==
    {f \in Files : /\ task[f] = "collected"
                   /\ ~outcome[f].raised
                   /\ outcome[f].ret.success}
CountsFilenames == {stats_data.data[k].filename : k \in 1..Len(stats_data.data)}
SequencesFilenames == {sequence_data[k].filename : k \in 1..Len(sequence_data)}

\* C13: for every completion order and every pattern of failures the
\* region-counts collection and the region-sequences collection hold one
\* row for exactly the same documents, those whose task returned
\* success=true, so both row counts equal the success count; and when no
\* document succeeds neither report file is written, not even a header.
C13_SameDocuments ==
    Batch =>
        /\ CountsFilenames = SucceededFiles
        /\ SequencesFilenames = SucceededFiles
        /\ Len(stats_data.data) = Cardinality(SucceededFiles)
        /\ Len(sequence_data) = Cardinality(SucceededFiles)
        /\ success_count = Cardinality(SucceededFiles)
        /\ stats_data.present <=> success_count > 0
        /\ (pc = "done" /\ success_count = 0) =>
              /\ written.counts = AbsentFile
              /\ written.sequences = AbsentFile

\* two documents succeeded, out of filename order, and one failed
C13_Witness ==
    /\ BatchDone
    /\ ~presorted
    /\ success_count = 2
    /\ Cardinality(Files) = 3
    /\ Len(stats_data.data) = 2
    /\ Len(sequence_data) = 2
    /\ CountsFilenames = SequencesFilenames

\* every document failed and the run ended without a report file
NothingWritten ==
    /\ BatchDone
    /\ success_count = 0
    /\ ~args.no_stats
    /\ written.counts = AbsentFile
    /\ written.sequences = AbsentFile

(***************************************************************************)
(* SpecType: extract_region_type applied to one custom attribute.  The     *)
(* attributes are assembled from a prefix, a spelling of the literal, white *)
(* space, a separator, white space, a value and a suffix; args keeps the    *)
(* parts.                                                                  *)
(***************************************************************************)
s_Type == <<"T","y","p","e">>
s_TYPE == <<"T","Y","P","E">>
s_Header_Text == <<"H","e","a","d","e","r","-","T","e","x","t">>
s_header_text == <<"h","e","a","d","e","r","-","t","e","x","t">>

Spaces(n) == [k \in 1..n |-> " "]

TypePrefixes == { << >>, <<"{">>, <<"t","y"," ">> }
TypeLiterals == { s_type, s_Type, s_TYPE }
TypeSeparators == { <<":">>, << >>, <<"=">> }
TypeValues ==
    { s_header, s_Header_Text, <<"H","e","a","d","e","r","-">>,
      <<"-","x">>, << >>, <<"p","a","g","e","_","1">> }
TypeSuffixes == { << >>, <<";","}">> }

TypeParts ==
    [prefix : TypePrefixes, literal : TypeLiterals,
     before : {Spaces(n) : n \in 0..MaxSpaces}, separator : TypeSeparators,
     after : {Spaces(n) : n \in 0..MaxSpaces}, value : TypeValues,
     suffix : TypeSuffixes]

Assemble(parts) ==
    parts.prefix \o parts.literal \o parts.before \o parts.separator
        \o parts.after \o parts.value \o parts.suffix

InitType ==
    /\ mode = "type"
    /\ pc = "start"
    /\ args \in TypeParts
    /\ text = Assemble(args)
    /\ fn_ret = [found |-> FALSE, value |-> s_empty]
    /\ doc = EmptyDocument
    /\ seq_ret = NoSequence
    /\ env = << >>
    /\ file_ret = << >>
    /\ overlay = << >>
    /\ log = << >>
    /\ exit_status = NotExited
    /\ written = << >>
    /\ IdleBatch

ExtractRegionType ==
    /\ mode = "type"
    /\ pc = "start"
    /\ fn_ret' = extract_region_type(text)
    /\ pc' = "done"
    /\ UNCHANGED << text, mode, doc, seq_ret, file_vars, batch_vars >>

NextType == ExtractRegionType

SpecType == InitType /\ [][NextType]_vars

(***************************************************************************)
(* Properties of extract_region_type (SpecType).                           *)
(***************************************************************************)
TypeDone == mode = "type" /\ pc = "done"

\* "type:header", "Type : Header-Text" and "type : Header-Text"
TextTypeHeader == s_type \o <<":">> \o s_header
TextCapitalType == s_Type \o <<" ", ":", " ">> \o s_Header_Text
TextSpacedType == s_type \o <<" ", ":", " ">> \o s_Header_Text

\* what the pattern captures from each value that follows the colon
CapturedFrom(value) ==
    CASE value = s_header -> s_header
      [] value = s_Header_Text -> s_header_text
      [] value = <<"H","e","a","d","e","r","-">> -> s_header
      [] value = <<"p","a","g","e","_","1">> -> <<"p","a","g","e","_","1">>
      [] OTHER -> s_empty

\* C11 as stated: the literal is matched whatever its case and with white
\* space around the colon: "type:header" and "Type : Header-Text" both
\* give "header".
C11_CaseInsensitive ==
    /\ (TypeDone /\ text = TextTypeHeader) =>
          fn_ret.found /\ fn_ret.value = s_header
    /\ (TypeDone /\ text = TextCapitalType) =>
          fn_ret.found /\ fn_ret.value = s_header

\* C11 amended: the literal "type" is matched in lower case only, with any
\* white space around the colon, and the captured word with its hyphenated
\* parts is returned in lower case: "type:header" gives "header",
\* "type : Header-Text" gives "header-text", and "Type : Header-Text" gives
\* nothing.
C11_LowerCaseLiteral ==
    /\ TypeDone =>
          /\ fn_ret.found <=>
                /\ args.literal = s_type
                /\ args.separator = <<":">>
                /\ CapturedFrom(args.value) # s_empty
          /\ fn_ret.found => fn_ret.value = CapturedFrom(args.value)
    /\ (TypeDone /\ text = TextTypeHeader) =>
          fn_ret.found /\ fn_ret.value = s_header
    /\ (TypeDone /\ text = TextSpacedType) =>
          fn_ret.found /\ fn_ret.value = s_header_text
    /\ (TypeDone /\ text = TextCapitalType) => ~fn_ret.found

\* "type : Header-Text" has been searched
C11_Witness ==
    /\ TypeDone
    /\ text = TextSpacedType
    /\ fn_ret.found
    /\ fn_ret.value = s_header_text

(***************************************************************************)
(* SpecCoords: parse_coords applied to the text of one points attribute.   *)
(* The text is cut as str.split() and point.split(',') cut it and each     *)
(* field is read as float() reads it.  The fields of the enumerated        *)
(* attributes are signed decimals without exponent or underscore, "inf",   *)
(* "nan" or text float() rejects.                                          *)
(***************************************************************************)
\* the first position at or after i that holds white space, or Len(s) + 1
RECURSIVE SkipToSpace(_, _)
SkipToSpace(s, i) ==
    IF i <= Len(s) /\ ~IsSpace(s[i]) THEN SkipToSpace(s, i + 1) ELSE i

\* points_str.strip().split(): the maximal runs without white space
RECURSIVE SplitFrom(_, _, _)
SplitFrom(s, i, tokens) ==
    IF i > Len(s) THEN tokens
    ELSE IF IsSpace(s[i]) THEN SplitFrom(s, i + 1, tokens)
    ELSE SplitFrom(s, SkipToSpace(s, i),
                   Append(tokens, SubSeq(s, i, SkipToSpace(s, i) - 1)))

split(s) == SplitFrom(s, 1, << >>)

\* point.split(','): the pieces between commas, empty ones included
RECURSIVE SplitCommaFrom(_, _, _, _)
SplitCommaFrom(s, i, start, pieces) ==
    IF i > Len(s) THEN Append(pieces, SubSeq(s, start, Len(s)))
    ELSE IF s[i] = ","
         THEN SplitCommaFrom(s, i + 1, i + 1,
                             Append(pieces, SubSeq(s, start, i - 1)))
         ELSE SplitCommaFrom(s, i + 1, start, pieces)

split_comma(s) == SplitCommaFrom(s, 1, 1, << >>)

DigitValue(c) ==
    CASE c = "0" -> 0 [] c = "1" -> 1 [] c = "2" -> 2 [] c = "3" -> 3
      [] c = "4" -> 4 [] c = "5" -> 5 [] c = "6" -> 6 [] c = "7" -> 7
      [] c = "8" -> 8 [] c = "9" -> 9

AllDigits(s) == \A i \in 1..Len(s) : s[i] \in Digits

RECURSIVE DecimalValue(_)
DecimalValue(s) ==
    IF s = << >> THEN 0
    ELSE 10 * DecimalValue(SubSeq(s, 1, Len(s) - 1)) + DigitValue(s[Len(s)])

\* the first three decimals of a fraction, in thousandths
Thousandths(s) ==
    DecimalValue(SubSeq(s \o <<"0","0","0">>, 1, 3))

DotPositions(s) == {i \in 1..Len(s) : s[i] = "."}

\* float() of an unsigned field
UnsignedFloat(s) ==
    IF lower(s) \in { <<"i","n","f">>, <<"i","n","f","i","n","i","t","y">> }
    THEN InfField
    ELSE IF lower(s) = <<"n","a","n">> THEN NanField
    ELSE IF s # << >> /\ AllDigits(s) THEN Num(1000 * DecimalValue(s))
    ELSE IF Cardinality(DotPositions(s)) = 1
         THEN LET d == CHOOSE i \in DotPositions(s) : TRUE
                  whole == SubSeq(s, 1, d - 1)
                  fraction == SubSeq(s, d + 1, Len(s))
              IN IF /\ AllDigits(whole)
                    /\ AllDigits(fraction)
                    /\ Len(whole) + Len(fraction) > 0
                 THEN Num(1000 * DecimalValue(whole) + Thousandths(fraction))
                 ELSE BadField
         ELSE BadField

\* float(field): a sign, then the unsigned field
float(s) ==
    IF s # << >> /\ s[1] \in {"+", "-"}
    THEN LET f == UnsignedFloat(SubSeq(s, 2, Len(s)))
         IN IF f.kind = "num" /\ s[1] = "-" THEN Num(-f.milli) ELSE f
    ELSE UnsignedFloat(s)

\* the tokens of the attribute, each as the fields float() is applied to
FieldsOf(point) ==
    [k \in 1..Len(split_comma(point)) |-> float(split_comma(point)[k])]

TokensOf(s) == [k \in 1..Len(split(s)) |-> FieldsOf(split(s)[k])]

\* parse_coords of the text of an attribute, or of None
parse_coords_str(is_none, s) ==
    IF is_none \/ s = << >> THEN [raised |-> FALSE, points |-> << >>]
    ELSE parse_coords(TokensOf(s))

\* the tokens attributes are assembled from
t_10_10 == <<"1","0",",","1","0">>
t_20_20 == <<"2","0",",","2","0">>
t_30_30 == <<"3","0",",","3","0">>
t_x_y == <<"x",",","y">>
t_decimal == <<"1",".","9",",","-","1",".","9">>
t_three == <<"1",",","2",",","3">>
t_one == <<"7">>
t_nan == <<"n","a","n",",","1">>
t_inf == <<"i","n","f",",","2","0">>

TokenTexts ==
    { t_10_10, t_20_20, t_30_30, t_x_y, t_decimal, t_three, t_one, t_nan,
      t_inf }

\* "10,10 20,20 x,y 30,30"
ExampleTokens == << t_10_10, t_20_20, t_x_y, t_30_30 >>

CoordsParts ==
    [is_none : {FALSE}, lead : {<< >>, <<" ">>},
     sep : {<<" ">>, <<"\t", " ">>},
     tokens : SeqOf(TokenTexts, MaxTokens) \cup {ExampleTokens}]
    \cup { [is_none |-> TRUE, lead |-> << >>, sep |-> <<" ">>,
            tokens |-> << >>] }

RECURSIVE JoinFrom(_, _, _, _)
JoinFrom(tokens, sep, i, s) ==
    IF i > Len(tokens) THEN s
    ELSE JoinFrom(tokens, sep, i + 1,
                  IF i = 1 THEN s \o tokens[i] ELSE s \o sep \o tokens[i])

AssemblePoints(parts) == JoinFrom(parts.tokens, parts.sep, 1, parts.lead)

InitCoords ==
    /\ mode = "coords"
    /\ pc = "start"
    /\ args \in CoordsParts
    /\ text = AssemblePoints(args)
    /\ fn_ret = [raised |-> FALSE, points |-> << >>]
    /\ doc = EmptyDocument
    /\ seq_ret = NoSequence
    /\ env = << >>
    /\ file_ret = << >>
    /\ overlay = << >>
    /\ log = << >>
    /\ exit_status = NotExited
    /\ written = << >>
    /\ IdleBatch

ParseCoords ==
    /\ mode = "coords"
    /\ pc = "start"
    /\ fn_ret' = parse_coords_str(args.is_none, text)
    /\ pc' = "done"
    /\ UNCHANGED << text, mode, doc, seq_ret, file_vars, batch_vars >>

NextCoords == ParseCoords

SpecCoords == InitCoords /\ [][NextCoords]_vars

(***************************************************************************)
(* Properties of parse_coords (SpecCoords).                                *)
(***************************************************************************)
CoordsDone == mode = "coords" /\ pc = "done"

\* the tokens that split into exactly two numeric fields, with their point
WellFormedPoint ==
    (t_10_10 :> <<10, 10>>) @@ (t_20_20 :> <<20, 20>>)
        @@ (t_30_30 :> <<30, 30>>) @@ (t_decimal :> <<1, -1>>)

RECURSIVE WellFormedFrom(_, _)
WellFormedFrom(tokens, i) ==
    IF i > Len(tokens) THEN << >>
    ELSE IF tokens[i] \in DOMAIN WellFormedPoint
         THEN << WellFormedPoint[tokens[i]] >> \o WellFormedFrom(tokens, i + 1)
         ELSE WellFormedFrom(tokens, i + 1)

\* C12 as stated: every token that is not two numeric fields is skipped and
\* parsing continues, so parse_coords returns the points of the well-formed
\* tokens in input order ("10,10 20,20 x,y 30,30" gives (10,10), (20,20),
\* (30,30)), and a missing or empty attribute gives the empty list.
C12_MalformedSkipped ==
    CoordsDone =>
        /\ ~fn_ret.raised
        /\ fn_ret.points = WellFormedFrom(args.tokens, 1)
        /\ (args.is_none \/ text = << >>) => fn_ret.points = << >>

\* apart from a token whose first failing field is an infinity the claim
\* holds: such a token makes parse_coords raise
SkippedUnlessInfinity ==
    CoordsDone =>
        /\ fn_ret.raised <=> \E i \in 1..Len(args.tokens) : args.tokens[i] = t_inf
        /\ ~fn_ret.raised => fn_ret.points = WellFormedFrom(args.tokens, 1)

====
